---- MODULE Spec2Model ----
(***************************************************************************)
(* PostcodeParse: the filter-join-aggregate pipeline of                    *)
(* src/postcode_parse/data_processing.py and the writers of output.py.     *)
(*                                                                         *)
(* A string is a sequence of one-character strings, so that the district   *)
(* pattern and re.sub can look at characters.  A CSV row is a sequence of  *)
(* strings (what csv.reader yields), a file is a sequence of rows.         *)
(* A Python dict is a sequence of <<key, value>> entries in insertion      *)
(* order with unique keys.                                                 *)
(***************************************************************************)
EXTENDS Integers, Sequences, FiniteSets, TLC

VARIABLES
    pc,                          \* position of the run
    desired_postcode_districts,  \* Set[str]
    paf_rows,                    \* rows the csv reader of paf_file_path has yielded so far
    ons_data,                    \* rows of the file at ons_data_path
    postcode_output_dict,        \* Dict[str, PostcodeData]
    unlocated_postcodes,         \* Dict[str, int]
    lookups,                     \* postcodes _retrieve_coords_ons was called with, in call order
    csv_file,                    \* rows written to Postcodes.csv (<<>>: not created)
    kml,                         \* the simplekml document: its points, and whether it was saved
    data_rows,                   \* _trim_file: rows of data_path read so far
    postcode_index,              \* _trim_file: its postcode_index argument
    output_file,                 \* _trim_file: rows written to output_path
    data_folder,                 \* data_transformation: PAF.csv and the ONS folder's files
    tmp_paf,                     \* rows of SystemDefs.TEMP_PAF_CSV
    ons_file_path,               \* data_transformation.ons_file_path (<<>>: not assigned)
    call,                        \* arguments of a call of a pure function
    ret                          \* what that call returned (or raised)

vars == <<pc, desired_postcode_districts, paf_rows, ons_data, postcode_output_dict,
          unlocated_postcodes, lookups, csv_file, kml, data_rows, postcode_index,
          output_file, data_folder, tmp_paf, ons_file_path, call, ret>>

\* Python's None, as a value that is no string of characters
None == <<"None">>

----------------------------------------------------------------------------
(* Bounds of the model *)

MaxPafRows == 3
MaxOnsRows == 2
MaxDataRows == 3
MaxStrLen == 5
MaxDirEntries == 2

----------------------------------------------------------------------------
(* _constants.py *)

PAF_FORMAT == [OrganisationName |-> 11, Postcode |-> 0, PostcodeType |-> 13]

ONS_FORMAT == [Postcode |-> 2, Latitude |-> 41, Longitude |-> 42]

UpperCase == {"A","B","C","D","E","F","G","H","I","J","K","L","M",
              "N","O","P","Q","R","S","T","U","V","W","X","Y","Z"}

Digits == {"0","1","2","3","4","5","6","7","8","9"}

\* PostcodeData.__init__
PostcodeData(latitude, longitude) ==
    [address_count |-> 1, latitude |-> latitude, longitude |-> longitude]

----------------------------------------------------------------------------
(* Python primitives used by the code *)

\* row[i] with Python's 0-based index; IndexError when the row is too short
HasIndex(row, i) == i < Len(row)

Field(row, i) == row[i + 1]

\* key in d
DictHas(d, k) == \E i \in 1..Len(d) : d[i][1] = k

\* d[k]
DictGet(d, k) == d[CHOOSE i \in 1..Len(d) : d[i][1] = k][2]

\* d[k] = v : replaces the value of an existing key in place, else appends
DictSet(d, k, v) ==
    IF DictHas(d, k)
    THEN [i \in 1..Len(d) |-> IF d[i][1] = k THEN <<k, v>> ELSE d[i]]
    ELSE Append(d, <<k, v>>)

DictKeys(d) == {d[i][1] : i \in 1..Len(d)}

SeqsUpTo(S, n) == UNION {[1..k -> S] : k \in 0..n}

----------------------------------------------------------------------------
(* District Matcher *)

AllIn(s, from, to, class) == \A i \in from..to : s[i] \in class

\* one attempt of the pattern ^([A-Z]{1,2}[0-9]{1,2}) with nl letters and nd digits
PatternTry(s, nl, nd) ==
    /\ nl + nd <= Len(s)
    /\ AllIn(s, 1, nl, UpperCase)
    /\ AllIn(s, nl + 1, nl + nd, Digits)

\* The matcher backtracks over the two greedy quantifiers: the larger count of
\* each is tried first, the letters' before the digits'.

\* Faulty variant: the quantifiers taken as non-greedy: the shortest match first
POSTCODE_DISTRICT_PATTERN_match_lazy(data) ==
    LET order == << <<1, 1>>, <<1, 2>>, <<2, 1>>, <<2, 2>> >>
        ok == {k \in 1..Len(order) : PatternTry(data, order[k][1], order[k][2])}
    IN IF ok = {} THEN None
       ELSE LET first == CHOOSE k \in ok : \A j \in ok : k <= j
            IN SubSeq(data, 1, order[first][1] + order[first][2])

\* SystemDefs.POSTCODE_DISTRICT_PATTERN.match(data): group(1), or None
POSTCODE_DISTRICT_PATTERN_match(data) ==
    LET order == << <<2, 2>>, <<2, 1>>, <<1, 2>>, <<1, 1>> >>
        ok == {k \in 1..Len(order) : PatternTry(data, order[k][1], order[k][2])}
    IN IF ok = {} THEN None
       ELSE LET first == CHOOSE k \in ok : \A j \in ok : k <= j
            IN SubSeq(data, 1, order[first][1] + order[first][2])

\* Faulty variant: data.startswith(district) for some desired district
_is_desired_postcode_district_startswith(data, districts) ==
    \E k \in 1..Len(data) : SubSeq(data, 1, k) \in districts

_is_desired_postcode_district(data, districts) ==
    LET match == POSTCODE_DISTRICT_PATTERN_match(data)
    IN IF match # None THEN match \in districts ELSE FALSE

----------------------------------------------------------------------------
(* Coordinate Lookup *)

RECURSIVE ScanOns(_, _, _)
\* the for loop of _retrieve_coords_ons from row i on
ScanOns(rows, postcode, i) ==
    IF i > Len(rows) THEN [raised |-> FALSE, value |-> <<None, None>>]
    ELSE IF ~HasIndex(rows[i], ONS_FORMAT.Postcode)
         THEN [raised |-> TRUE, value |-> <<None, None>>]
    ELSE IF Field(rows[i], ONS_FORMAT.Postcode) = postcode
         THEN IF HasIndex(rows[i], ONS_FORMAT.Latitude) /\ HasIndex(rows[i], ONS_FORMAT.Longitude)
              THEN [raised |-> FALSE,
                    value |-> <<Field(rows[i], ONS_FORMAT.Latitude),
                                Field(rows[i], ONS_FORMAT.Longitude)>>]
              ELSE [raised |-> TRUE, value |-> <<None, None>>]
    ELSE ScanOns(rows, postcode, i + 1)

RECURSIVE ScanOnsLast(_, _, _, _)
ScanOnsLast(rows, postcode, i, found) ==
    IF i > Len(rows) THEN [raised |-> FALSE, value |-> found]
    ELSE IF ~HasIndex(rows[i], ONS_FORMAT.Postcode)
         THEN [raised |-> TRUE, value |-> <<None, None>>]
    ELSE IF Field(rows[i], ONS_FORMAT.Postcode) = postcode
         THEN IF HasIndex(rows[i], ONS_FORMAT.Latitude) /\ HasIndex(rows[i], ONS_FORMAT.Longitude)
              THEN ScanOnsLast(rows, postcode, i + 1,
                               <<Field(rows[i], ONS_FORMAT.Latitude),
                                 Field(rows[i], ONS_FORMAT.Longitude)>>)
              ELSE [raised |-> TRUE, value |-> <<None, None>>]
    ELSE ScanOnsLast(rows, postcode, i + 1, found)

_retrieve_coords_ons_last(rows, postcode) == ScanOnsLast(rows, postcode, 1, <<None, None>>)

_retrieve_coords_ons(rows, postcode) == ScanOns(rows, postcode, 1)

----------------------------------------------------------------------------
(* PAF Row Processor / Aggregator.  Each operator returns what the function    *)
(* leaves behind: whether it raised, the two dicts, and the lookups it made.   *)

\* Faulty variant: the count is set, never incremented
_add_to_unlocated_postcodes_no_increment(postcode, unlocated) ==
    DictSet(unlocated, postcode, 1)

_add_to_unlocated_postcodes(postcode, unlocated) ==
    IF DictHas(unlocated, postcode)
    THEN DictSet(unlocated, postcode, DictGet(unlocated, postcode) + 1)
    ELSE DictSet(unlocated, postcode, 1)

_add_new_postcode(postcode, output_dict, unlocated, rows) ==
    LET coords == _retrieve_coords_ons(rows, postcode)
        latitude == coords.value[1]
        longitude == coords.value[2]
    IN IF coords.raised
       THEN [raised |-> TRUE, dict |-> output_dict, unlocated |-> unlocated,
             lookups |-> <<postcode>>]
       ELSE IF latitude = None \/ longitude = None
       THEN [raised |-> FALSE, dict |-> output_dict,
             unlocated |-> _add_to_unlocated_postcodes(postcode, unlocated),
             lookups |-> <<postcode>>]
       ELSE [raised |-> FALSE,
             dict |-> DictSet(output_dict, postcode, PostcodeData(latitude, longitude)),
             unlocated |-> unlocated, lookups |-> <<postcode>>]

\* Faulty variant: only the entry inserted last is tested, as if the address
\* file were sorted by postcode
_update_postcode_data_last_only(postcode, output_dict, unlocated, rows) ==
    IF output_dict # <<>> /\ output_dict[Len(output_dict)][1] = postcode
    THEN LET data == DictGet(output_dict, postcode)
         IN [raised |-> FALSE,
             dict |-> DictSet(output_dict, postcode,
                              [data EXCEPT !.address_count = data.address_count + 1]),
             unlocated |-> unlocated, lookups |-> <<>>]
    ELSE _add_new_postcode(postcode, output_dict, unlocated, rows)

\* Faulty variant: the membership test is missing: every row adds the postcode anew
_update_postcode_data_always_new(postcode, output_dict, unlocated, rows) ==
    _add_new_postcode(postcode, output_dict, unlocated, rows)

_update_postcode_data(postcode, output_dict, unlocated, rows) ==
    IF DictHas(output_dict, postcode)
    THEN LET data == DictGet(output_dict, postcode)
         IN [raised |-> FALSE,
             dict |-> DictSet(output_dict, postcode,
                              [data EXCEPT !.address_count = data.address_count + 1]),
             unlocated |-> unlocated, lookups |-> <<>>]
    ELSE _add_new_postcode(postcode, output_dict, unlocated, rows)

\* Faulty variant: the Postcode Type flag is computed and not used
_is_valid_paf_row_any_type(row, postcode, districts) ==
    IF ~HasIndex(row, PAF_FORMAT.OrganisationName) \/ ~HasIndex(row, PAF_FORMAT.PostcodeType)
    THEN [raised |-> TRUE, value |-> FALSE]
    ELSE [raised |-> FALSE,
          value |-> /\ Field(row, PAF_FORMAT.OrganisationName) = <<>>
                    /\ _is_desired_postcode_district(postcode, districts)]

\* raised: an IndexError of one of the two column reads
_is_valid_paf_row(row, postcode, districts) ==
    IF ~HasIndex(row, PAF_FORMAT.OrganisationName) \/ ~HasIndex(row, PAF_FORMAT.PostcodeType)
    THEN [raised |-> TRUE, value |-> FALSE]
    ELSE LET is_not_business_flag == Field(row, PAF_FORMAT.OrganisationName) = <<>>
             is_small_postcode_flag == Field(row, PAF_FORMAT.PostcodeType) = <<"S">>
         IN [raised |-> FALSE,
             value |-> /\ is_not_business_flag
                       /\ is_small_postcode_flag
                       /\ _is_desired_postcode_district(postcode, districts)]

_process_paf_row(row, districts, output_dict, unlocated, rows) ==
    LET same == [raised |-> FALSE, dict |-> output_dict, unlocated |-> unlocated,
                 lookups |-> <<>>]
    IN IF ~HasIndex(row, PAF_FORMAT.Postcode) THEN [same EXCEPT !.raised = TRUE]
       ELSE LET postcode == Field(row, PAF_FORMAT.Postcode)
                valid == _is_valid_paf_row(row, postcode, districts)
            IN IF valid.raised THEN [same EXCEPT !.raised = TRUE]
               ELSE IF ~valid.value THEN same
               ELSE _update_postcode_data(postcode, output_dict, unlocated, rows)

RECURSIVE PafLoop(_, _, _, _, _, _)
\* the for loop of _process_paf_file from row i on, then its return
PafLoop(paf, i, districts, output_dict, unlocated, rows) ==
    IF i > Len(paf)
    THEN [raised |-> FALSE, dict |-> output_dict, unlocated |-> unlocated]
    ELSE LET r == _process_paf_row(paf[i], districts, output_dict, unlocated, rows)
         IN IF r.raised
            THEN [raised |-> TRUE, dict |-> r.dict, unlocated |-> r.unlocated]
            ELSE PafLoop(paf, i + 1, districts, r.dict, r.unlocated, rows)

\* paf: the rows of paf_file_path, rows: the rows of ons_data_path
_process_paf_file(paf, districts, rows) == PafLoop(paf, 1, districts, <<>>, <<>>, rows)

----------------------------------------------------------------------------
(* Output Writers *)

RECURSIVE str(_)
\* str(n) of a natural number: its decimal digits
str(n) ==
    LET digit == <<"0","1","2","3","4","5","6","7","8","9">>
    IN IF n < 10 THEN <<digit[n + 1]>> ELSE Append(str(n \div 10), digit[(n % 10) + 1])

CsvHeader == << <<"p","o","s","t","c","o","d","e">>,
                <<"a","d","d","r","e","s","s"," ","c","o","u","n","t">>,
                <<"l","a","t","i","t","u","d","e">>,
                <<"l","o","n","g","i","t","u","d","e">> >>

\* Faulty variant: the items are written last inserted first
csv_output_reversed(output_dict) ==
    <<CsvHeader>> \o
    [i \in 1..Len(output_dict) |->
        LET item == output_dict[Len(output_dict) + 1 - i]
        IN <<item[1], str(item[2].address_count), item[2].latitude, item[2].longitude>>]

\* the rows csv.DictWriter writes: the header, then one row per item of the dict
csv_output(output_dict) ==
    <<CsvHeader>> \o
    [i \in 1..Len(output_dict) |->
        <<output_dict[i][1], str(output_dict[i][2].address_count),
          output_dict[i][2].latitude, output_dict[i][2].longitude>>]

\* Faulty variant: the coordinate pair in (latitude, longitude) order
KmlPoint_latitude_first(postcode, postcode_data) ==
    [name |-> postcode,
     coords |-> << <<postcode_data.latitude, postcode_data.longitude>> >>,
     extendeddata |-> << [name |-> "AddressCount", value |-> postcode_data.address_count] >>]

\* kml.newpoint(...) and pnt.extendeddata.newdata(...) of one item
KmlPoint(postcode, postcode_data) ==
    [name |-> postcode,
     coords |-> << <<postcode_data.longitude, postcode_data.latitude>> >>,
     extendeddata |-> << [name |-> "AddressCount", value |-> postcode_data.address_count] >>]

\* the points of the document kml_output builds, in the dict's order
kml_output(output_dict) ==
    [i \in 1..Len(output_dict) |-> KmlPoint(output_dict[i][1], output_dict[i][2])]

----------------------------------------------------------------------------
(* Inputs of the model *)

BT1 == <<"B","T","1">>
BT11 == <<"B","T","1","1">>

PC_BT1_1AA == <<"B","T","1"," ","1","A","A">>   \* district BT1
PC_BT11AA == <<"B","T","1","1","A","A">>        \* district BT11
PC_lower == <<"b","t","1"," ","1","a","a">>     \* fails the pattern

\* a PAF row of n columns
PafRow(n, postcode, organisation, type) ==
    [i \in 1..n |-> IF i = PAF_FORMAT.Postcode + 1 THEN postcode
                    ELSE IF i = PAF_FORMAT.OrganisationName + 1 THEN organisation
                    ELSE IF i = PAF_FORMAT.PostcodeType + 1 THEN type
                    ELSE <<>>]

\* an ONS row of n columns
OnsRow(n, postcode, latitude, longitude) ==
    [i \in 1..n |-> IF i = ONS_FORMAT.Postcode + 1 THEN postcode
                    ELSE IF i = ONS_FORMAT.Latitude + 1 THEN latitude
                    ELSE IF i = ONS_FORMAT.Longitude + 1 THEN longitude
                    ELSE <<>>]

PafWidth == PAF_FORMAT.PostcodeType + 3
OnsWidth == ONS_FORMAT.Longitude + 1

Acme == <<"A","c","m","e"," ","L","t","d">>
TypeS == <<"S">>
TypeL == <<"L">>
Lat1 == <<"5","4",".","1">>
Lon1 == <<"-","6",".","2">>
Lat2 == <<"5","4",".","9">>
Lon2 == <<"-","5",".","9">>

PafRowInputs ==
    { PafRow(PafWidth, PC_BT1_1AA, <<>>, TypeS),
      PafRow(PafWidth, PC_BT1_1AA, Acme, TypeS),
      PafRow(PafWidth, PC_BT1_1AA, <<>>, TypeL),
      PafRow(PafWidth, PC_BT11AA, <<>>, TypeS),
      PafRow(PafWidth, PC_lower, <<>>, TypeS),
      PafRow(PAF_FORMAT.PostcodeType, PC_BT1_1AA, <<>>, TypeS),  \* no Postcode Type column
      <<>> }                                                     \* a blank line

OnsRowInputs ==
    { OnsRow(OnsWidth, PC_BT1_1AA, Lat1, Lon1),
      OnsRow(OnsWidth, PC_BT11AA, Lat2, Lon2),
      <<>> }                                                     \* a blank line

DesiredInputs == { {BT1}, {BT1, BT11} }

----------------------------------------------------------------------------
(* postcode_parse(paf_file_path, ons_data_path, desired_postcode_districts,    *)
(* output_path)                                                             *)

\* data_transformation has not run
NoRun ==
    /\ data_folder = [paf |-> <<>>, ons |-> <<>>]
    /\ tmp_paf = <<>>
    /\ ons_file_path = <<>>

NoTrim ==
    /\ data_rows = <<>>
    /\ postcode_index = 0
    /\ output_file = <<>>

NoCall ==
    /\ call = <<>>
    /\ ret = <<>>

Init ==
    /\ pc = "process_paf"
    /\ desired_postcode_districts \in DesiredInputs
    /\ paf_rows = <<>>
    /\ ons_data \in SeqsUpTo(OnsRowInputs, MaxOnsRows)
    /\ postcode_output_dict = <<>>
    /\ unlocated_postcodes = <<>>
    /\ lookups = <<>>
    /\ csv_file = <<>>
    /\ kml = [saved |-> FALSE, points |-> <<>>]
    /\ NoTrim
    /\ NoRun
    /\ NoCall

\* Faulty variant: Postcodes.csv is rewritten after every row of the pass
ProcessPafRow_streaming(row) ==
    /\ pc = "process_paf"
    /\ Len(paf_rows) < MaxPafRows
    /\ LET r == _process_paf_row(row, desired_postcode_districts, postcode_output_dict,
                                 unlocated_postcodes, ons_data)
       IN /\ paf_rows' = Append(paf_rows, row)
          /\ postcode_output_dict' = r.dict
          /\ unlocated_postcodes' = r.unlocated
          /\ lookups' = lookups \o r.lookups
          /\ csv_file' = csv_output(r.dict)
          /\ pc' = IF r.raised THEN "raised" ELSE "process_paf"
    /\ UNCHANGED <<data_folder, tmp_paf, ons_file_path, desired_postcode_districts, ons_data, kml, data_rows,
                   postcode_index, output_file, call, ret>>

\* one iteration of the for loop of _process_paf_file: the reader yields `row`
ProcessPafRow(row) ==
    /\ pc = "process_paf"
    /\ Len(paf_rows) < MaxPafRows
    /\ LET r == _process_paf_row(row, desired_postcode_districts, postcode_output_dict,
                                 unlocated_postcodes, ons_data)
       IN /\ paf_rows' = Append(paf_rows, row)
          /\ postcode_output_dict' = r.dict
          /\ unlocated_postcodes' = r.unlocated
          /\ lookups' = lookups \o r.lookups
          /\ pc' = IF r.raised THEN "raised" ELSE "process_paf"
    /\ UNCHANGED <<data_folder, tmp_paf, ons_file_path, desired_postcode_districts, ons_data, csv_file, kml, data_rows,
                   postcode_index, output_file, call, ret>>

\* the reader is exhausted: _process_paf_file returns, _generate_outputs starts
PafEndOfFile ==
    /\ pc = "process_paf"
    /\ pc' = "csv_output"
    /\ UNCHANGED <<data_folder, tmp_paf, ons_file_path, desired_postcode_districts, paf_rows, ons_data, postcode_output_dict,
                   unlocated_postcodes, lookups, csv_file, kml, data_rows, postcode_index,
                   output_file, call, ret>>

CsvOutput ==
    /\ pc = "csv_output"
    /\ csv_file' = csv_output(postcode_output_dict)
    /\ pc' = "kml_output"
    /\ UNCHANGED <<data_folder, tmp_paf, ons_file_path, desired_postcode_districts, paf_rows, ons_data, postcode_output_dict,
                   unlocated_postcodes, lookups, kml, data_rows, postcode_index,
                   output_file, call, ret>>

KmlOutput ==
    /\ pc = "kml_output"
    /\ kml' = [saved |-> TRUE, points |-> kml_output(postcode_output_dict)]
    /\ pc' = "info_txt"
    /\ UNCHANGED <<data_folder, tmp_paf, ons_file_path, desired_postcode_districts, paf_rows, ons_data, postcode_output_dict,
                   unlocated_postcodes, lookups, csv_file, data_rows, postcode_index,
                   output_file, call, ret>>

\* create_postcode_info_txt and the log of unlocated_postcodes
CreatePostcodeInfoTxt ==
    /\ pc = "info_txt"
    /\ pc' = "done"
    /\ UNCHANGED <<data_folder, tmp_paf, ons_file_path, desired_postcode_districts, paf_rows, ons_data, postcode_output_dict,
                   unlocated_postcodes, lookups, csv_file, kml, data_rows, postcode_index,
                   output_file, call, ret>>

Next ==
    \/ \E row \in PafRowInputs : ProcessPafRow(row)
    \/ PafEndOfFile
    \/ CsvOutput
    \/ KmlOutput
    \/ CreatePostcodeInfoTxt

Spec == Init /\ [][Next]_vars

----------------------------------------------------------------------------
(* File Trimmer: _trim_file(data_path, desired_postcode_districts,             *)
(* postcode_index, output_path)                                             *)

\* the header row of an ONS file: column names, 'pcds' in the postcode column
OnsHeader == OnsRow(OnsWidth, <<"p","c","d","s">>, <<"l","a","t">>, <<"l","o","n","g">>)

\* rows of the file being trimmed: of an ONS file when the postcode column is
\* the ONS one, of the PAF file otherwise
TrimRowInputs ==
    IF postcode_index = ONS_FORMAT.Postcode
    THEN { OnsHeader,
           OnsRow(OnsWidth, PC_BT1_1AA, Lat1, Lon1),
           OnsRow(OnsWidth, PC_BT1_1AA, Lat2, Lon2),
           OnsRow(OnsWidth, PC_BT11AA, Lat2, Lon2),
           OnsRow(OnsWidth, PC_lower, Lat1, Lon1),
           <<>> }                                                \* a blank line
    ELSE PafRowInputs

NoParse ==
    /\ paf_rows = <<>>
    /\ ons_data = <<>>
    /\ postcode_output_dict = <<>>
    /\ unlocated_postcodes = <<>>
    /\ lookups = <<>>
    /\ csv_file = <<>>
    /\ kml = [saved |-> FALSE, points |-> <<>>]

\* the two calls of data_transformation: the PAF and the ONS postcode column
InitTrim ==
    /\ pc = "trim"
    /\ desired_postcode_districts \in DesiredInputs
    /\ postcode_index \in {PAF_FORMAT.Postcode, ONS_FORMAT.Postcode}
    /\ data_rows = <<>>
    /\ output_file = <<>>
    /\ NoParse
    /\ NoRun
    /\ NoCall

\* Faulty variant: the first row is written whatever its postcode column holds
TrimRow_header_kept(row) ==
    /\ pc = "trim"
    /\ Len(data_rows) < MaxDataRows
    /\ data_rows' = Append(data_rows, row)
    /\ IF data_rows = <<>>
       THEN /\ output_file' = Append(output_file, row)
            /\ pc' = "trim"
       ELSE IF ~HasIndex(row, postcode_index)
       THEN /\ output_file' = output_file
            /\ pc' = "raised"
       ELSE /\ output_file' =
                 IF _is_desired_postcode_district(Field(row, postcode_index),
                                                  desired_postcode_districts)
                 THEN Append(output_file, row) ELSE output_file
            /\ pc' = "trim"
    /\ UNCHANGED <<data_folder, tmp_paf, ons_file_path, desired_postcode_districts, paf_rows, ons_data, postcode_output_dict,
                   unlocated_postcodes, lookups, csv_file, kml, postcode_index, call, ret>>

\* Faulty variant: the postcode is read from the first column whatever postcode_index is
TrimRow_first_column(row) ==
    /\ pc = "trim"
    /\ Len(data_rows) < MaxDataRows
    /\ data_rows' = Append(data_rows, row)
    /\ IF ~HasIndex(row, 0)
       THEN /\ output_file' = output_file
            /\ pc' = "raised"
       ELSE /\ output_file' =
                 IF _is_desired_postcode_district(Field(row, 0), desired_postcode_districts)
                 THEN Append(output_file, row) ELSE output_file
            /\ pc' = "trim"
    /\ UNCHANGED <<data_folder, tmp_paf, ons_file_path, desired_postcode_districts, paf_rows, ons_data, postcode_output_dict,
                   unlocated_postcodes, lookups, csv_file, kml, postcode_index, call, ret>>

\* one iteration of the for loop of _trim_file: the reader yields `row`
TrimRow(row) ==
    /\ pc = "trim"
    /\ Len(data_rows) < MaxDataRows
    /\ data_rows' = Append(data_rows, row)
    /\ IF ~HasIndex(row, postcode_index)
       THEN /\ output_file' = output_file
            /\ pc' = "raised"
       ELSE /\ output_file' =
                 IF _is_desired_postcode_district(Field(row, postcode_index),
                                                  desired_postcode_districts)
                 THEN Append(output_file, row) ELSE output_file
            /\ pc' = "trim"
    /\ UNCHANGED <<data_folder, tmp_paf, ons_file_path, desired_postcode_districts, paf_rows, ons_data, postcode_output_dict,
                   unlocated_postcodes, lookups, csv_file, kml, postcode_index, call, ret>>

\* the reader is exhausted: both files are closed and output_path is returned
TrimEndOfFile ==
    /\ pc = "trim"
    /\ pc' = "trimmed"
    /\ UNCHANGED <<data_folder, tmp_paf, ons_file_path, desired_postcode_districts, paf_rows, ons_data, postcode_output_dict,
                   unlocated_postcodes, lookups, csv_file, kml, data_rows, postcode_index,
                   output_file, call, ret>>

NextTrim ==
    \/ \E row \in TrimRowInputs : TrimRow(row)
    \/ TrimEndOfFile

SpecTrim == InitTrim /\ [][NextTrim]_vars

----------------------------------------------------------------------------
(* Calls of single functions on bounded inputs *)

Idle ==
    /\ desired_postcode_districts = {}
    /\ NoParse
    /\ NoTrim
    /\ NoRun

B1 == <<"B","1">>

\* characters of the strings handed to the matcher: letters, a lower-case
\* letter, a digit and the space
MatchChars == {"B", "T", "b", "1", " "}

MatchDistrictInputs == { {BT1}, {B1, BT11}, {BT1, <<"B","T">>} }

InitMatch ==
    /\ pc = "call"
    /\ call \in [data : SeqsUpTo(MatchChars, MaxStrLen), districts : MatchDistrictInputs]
    /\ ret = <<>>
    /\ Idle

\* _is_desired_postcode_district(call.data, call.districts)
CallIsDesired ==
    /\ pc = "call"
    /\ ret' = [raised |-> FALSE,
               value |-> _is_desired_postcode_district(call.data, call.districts)]
    /\ pc' = "returned"
    /\ UNCHANGED <<data_folder, tmp_paf, ons_file_path, desired_postcode_districts, paf_rows, ons_data, postcode_output_dict,
                   unlocated_postcodes, lookups, csv_file, kml, data_rows, postcode_index,
                   output_file, call>>

NextMatch == CallIsDesired

SpecMatch == InitMatch /\ [][NextMatch]_vars

LookupRowInputs ==
    { OnsRow(OnsWidth, PC_BT1_1AA, Lat1, Lon1),
      OnsRow(OnsWidth, PC_BT1_1AA, Lat2, Lon2),
      OnsRow(OnsWidth, PC_BT11AA, Lat2, Lon1),
      OnsRow(OnsWidth, PC_lower, Lat1, Lon2),
      OnsRow(ONS_FORMAT.Longitude, PC_BT1_1AA, Lat1, Lon1),      \* no Longitude column
      <<>> }                                                     \* a blank line

InitLookup ==
    /\ pc = "call"
    /\ call \in [rows : SeqsUpTo(LookupRowInputs, MaxOnsRows),
                  postcode : {PC_BT1_1AA, PC_BT11AA, PC_lower}]
    /\ ret = <<>>
    /\ Idle

\* _retrieve_coords_ons(ons_data_path, call.postcode), call.rows in the file
CallRetrieveCoords ==
    /\ pc = "call"
    /\ ret' = _retrieve_coords_ons(call.rows, call.postcode)
    /\ pc' = "returned"
    /\ UNCHANGED <<data_folder, tmp_paf, ons_file_path, desired_postcode_districts, paf_rows, ons_data, postcode_output_dict,
                   unlocated_postcodes, lookups, csv_file, kml, data_rows, postcode_index,
                   output_file, call>>

NextLookup == CallRetrieveCoords

SpecLookup == InitLookup /\ [][NextLookup]_vars

----------------------------------------------------------------------------
(* ONS File Locator *)

\* SystemDefs.ONS_FOLDER_NAME
ONS_FOLDER_NAME == <<"O","N","S","P","D","_","A","U","G","_","2","0","2","4">>

startswith(s, prefix) == Len(s) >= Len(prefix) /\ SubSeq(s, 1, Len(prefix)) = prefix

endswith(s, suffix) ==
    Len(s) >= Len(suffix) /\ SubSeq(s, Len(s) - Len(suffix) + 1, Len(s)) = suffix

\* the last position of character c in s, 0 when there is none
LastIndexOf(s, c) ==
    LET at == {i \in 1..Len(s) : s[i] = c}
    IN IF at = {} THEN 0 ELSE CHOOSE i \in at : \A j \in at : j <= i

\* os.path.splitext(name)[0] of a name without directory part: the name up to
\* its last dot, unless only dots precede that dot
splitext_root(name) ==
    LET dot == LastIndexOf(name, ".")
    IN IF dot > 0 /\ \E i \in 1..(dot - 1) : name[i] # "."
       THEN SubSeq(name, 1, dot - 1)
       ELSE name

\* s.split("_")[-1]
split_last(s) == SubSeq(s, LastIndexOf(s, "_") + 1, Len(s))

\* re.sub(r"\d", "", s)
IsNoDigit(c) == c \notin Digits

sub_digits(s) == SelectSeq(s, IsNoDigit)

\* Faulty variant: the file's letters need only begin with the sought letters
OnsFileMatches_prefix(ons_file, outward_code_letters) ==
    /\ startswith(ons_file, ONS_FOLDER_NAME \o <<"_","U","K","_">>)
    /\ endswith(ons_file, <<".","c","s","v">>)
    /\ startswith(split_last(splitext_root(ons_file)), outward_code_letters)

\* the test of one directory entry in the loop of _find_ons_file
OnsFileMatches(ons_file, outward_code_letters) ==
    /\ startswith(ons_file, ONS_FOLDER_NAME \o <<"_","U","K","_">>)
    /\ endswith(ons_file, <<".","c","s","v">>)
    /\ outward_code_letters = split_last(splitext_root(ons_file))

RECURSIVE FindLoop(_, _, _, _, _)
\* the for loop of _find_ons_file from entry i on, then the raise
FindLoop(ons_folder_path, ons_files, outward_code, outward_code_letters, i) ==
    IF i > Len(ons_files)
    THEN [raised |-> TRUE,
          value |-> <<"ONS file for ", outward_code, " couldn't be found in ",
                      ons_folder_path>>]
    ELSE IF OnsFileMatches(ons_files[i], outward_code_letters)
         THEN [raised |-> FALSE, value |-> <<ons_folder_path, ons_files[i]>>]
         ELSE FindLoop(ons_folder_path, ons_files, outward_code, outward_code_letters, i + 1)

\* ons_files: what os.listdir(ons_folder_path) returns
_find_ons_file(ons_folder_path, ons_files, outward_code) ==
    FindLoop(ons_folder_path, ons_files, outward_code, sub_digits(outward_code), 1)

\* names of directory entries: a head, the letters part, an extension
FileNameInputs ==
    { head \o body \o ext :
        head \in { ONS_FOLDER_NAME \o <<"_","U","K","_">>,
                   <<"O","N","S","P","D","_","F","E","B","_","2","0","2","4","_","U","K","_">> },
        body \in { <<"B">>, <<"B","T">>, <<"T","_","B">> },
        ext \in { <<".","c","s","v">>, <<".","t","x","t">> } }

ONS_FOLDER_PATH == <<"D","a","t","a","/">> \o ONS_FOLDER_NAME

InitFind ==
    /\ pc = "call"
    /\ call \in [ons_folder_path : {ONS_FOLDER_PATH},
                  ons_files : SeqsUpTo(FileNameInputs, MaxDirEntries),
                  outward_code : {B1, BT1, BT11}]
    /\ ret = <<>>
    /\ Idle

\* _find_ons_file(call.ons_folder_path, call.outward_code)
CallFindOnsFile ==
    /\ pc = "call"
    /\ ret' = _find_ons_file(call.ons_folder_path, call.ons_files, call.outward_code)
    /\ pc' = "returned"
    /\ UNCHANGED <<data_folder, tmp_paf, ons_file_path, desired_postcode_districts, paf_rows, ons_data, postcode_output_dict,
                   unlocated_postcodes, lookups, csv_file, kml, data_rows, postcode_index,
                   output_file, call>>

NextFind == CallFindOnsFile

SpecFind == InitFind /\ [][NextFind]_vars

----------------------------------------------------------------------------
(* data_transformation(data_folder_path, desired_postcode_districts) followed *)
(* by postcode_parse on the two paths it returns                              *)

RECURSIVE TrimLoop(_, _, _, _, _)
\* the for loop of _trim_file from row i on; output: the rows written so far
TrimLoop(rows, i, districts, index, output) ==
    IF i > Len(rows) THEN [raised |-> FALSE, output |-> output]
    ELSE IF ~HasIndex(rows[i], index) THEN [raised |-> TRUE, output |-> output]
    ELSE TrimLoop(rows, i + 1, districts, index,
                  IF _is_desired_postcode_district(Field(rows[i], index), districts)
                  THEN Append(output, rows[i]) ELSE output)

\* rows: the rows of data_path; output: the rows of output_path
_trim_file(rows, districts, index) == TrimLoop(rows, 1, districts, index, <<>>)

\* os.listdir of the ONS folder
listdir(folder) == [i \in 1..Len(folder.ons) |-> folder.ons[i].name]

\* the rows of the file at `path`, a path _find_ons_file returned
FileRows(folder, path) ==
    LET i == CHOOSE j \in 1..Len(folder.ons) : folder.ons[j].name = path[2]
    IN folder.ons[i].rows

CV1 == <<"C","V","1">>
PC_CV1_2AB == <<"C","V","1"," ","2","A","B">>   \* district CV1
Lat3 == <<"5","2",".","4">>
Lon3 == <<"-","1",".","5">>

RegionalFileName(letters) ==
    ONS_FOLDER_NAME \o <<"_","U","K","_">> \o letters \o <<".","c","s","v">>

\* rows of PAF.csv: a desired BT1 row, a CV1 row, and a BT11 row no input set desires
RunPafInputs ==
    { PafRow(PafWidth, PC_BT1_1AA, <<>>, TypeS),
      PafRow(PafWidth, PC_CV1_2AB, <<>>, TypeS),
      PafRow(PafWidth, PC_BT11AA, <<>>, TypeS) }

\* data rows of the BT regional file
RunBtRows ==
    { OnsRow(OnsWidth, PC_BT1_1AA, Lat1, Lon1),
      OnsRow(OnsWidth, PC_BT11AA, Lat2, Lon2) }

\* the ONS folder: the BT regional file, a header row and its data rows, and
\* no CV regional file, one with a header row only, or one that has CV1 2AB
RunOnsFolders ==
    { << [name |-> RegionalFileName(<<"B","T">>), rows |-> <<OnsHeader>> \o body] >> \o cv :
        body \in SeqsUpTo(RunBtRows, MaxOnsRows),
        cv \in { <<>>,
                 << [name |-> RegionalFileName(<<"C","V">>), rows |-> <<OnsHeader>>] >>,
                 << [name |-> RegionalFileName(<<"C","V">>),
                     rows |-> <<OnsHeader, OnsRow(OnsWidth, PC_CV1_2AB, Lat3, Lon3)>>] >> } }

RunDesiredInputs == { {BT1}, {BT1, CV1} }

InitRun ==
    /\ pc = "trim_paf"
    /\ desired_postcode_districts \in RunDesiredInputs
    /\ data_folder \in [paf : SeqsUpTo(RunPafInputs, MaxPafRows), ons : RunOnsFolders]
    /\ tmp_paf = <<>>
    /\ ons_file_path = <<>>
    /\ NoParse
    /\ data_rows = <<>>
    /\ postcode_index = 0
    /\ output_file = <<>>
    /\ NoCall

\* final_paf_path = _trim_file(paf_file_path, ..., TEMP_PAF_CSV)
TrimPaf ==
    /\ pc = "trim_paf"
    /\ LET r == _trim_file(data_folder.paf, desired_postcode_districts, PAF_FORMAT.Postcode)
       IN /\ tmp_paf' = r.output
          /\ pc' = IF r.raised THEN "raised" ELSE "find_ons"
    /\ UNCHANGED <<data_folder, ons_file_path, desired_postcode_districts, paf_rows,
                   ons_data, postcode_output_dict, unlocated_postcodes, lookups, csv_file,
                   kml, data_rows, postcode_index, output_file, call, ret>>

\* ons_file_path = _find_ons_file(ons_folder_path, list(desired_postcode_districts)[0]):
\* the first element of the list of a set of strings is any element of the
\* set (the iteration order follows the per-process string hashes); the list
\* of the empty set has no first element (IndexError)
FindOnsFile ==
    /\ pc = "find_ons"
    /\ IF desired_postcode_districts = {}
       THEN /\ ons_file_path' = ons_file_path
            /\ pc' = "raised"
       ELSE \E outward_code \in desired_postcode_districts :
              LET r == _find_ons_file(ONS_FOLDER_PATH, listdir(data_folder), outward_code)
              IN /\ ons_file_path' = IF r.raised THEN ons_file_path ELSE r.value
                 /\ pc' = IF r.raised THEN "raised" ELSE "trim_ons"
    /\ UNCHANGED <<data_folder, tmp_paf, desired_postcode_districts, paf_rows,
                   ons_data, postcode_output_dict, unlocated_postcodes, lookups, csv_file,
                   kml, data_rows, postcode_index, output_file, call, ret>>

RECURSIVE EveryRow(_, _)
\* the rows of the files of the ONS folder from file i on
EveryRow(folder, i) ==
    IF i > Len(folder.ons) THEN <<>> ELSE folder.ons[i].rows \o EveryRow(folder, i + 1)

\* Faulty variant: every regional file of the folder is trimmed into TEMP_ONS_CSV
TrimOns_every_file ==
    /\ pc = "trim_ons"
    /\ LET r == _trim_file(EveryRow(data_folder, 1), desired_postcode_districts,
                           ONS_FORMAT.Postcode)
       IN /\ ons_data' = r.output
          /\ pc' = IF r.raised THEN "raised" ELSE "process_paf"
    /\ UNCHANGED <<data_folder, tmp_paf, ons_file_path, desired_postcode_districts,
                   paf_rows, postcode_output_dict, unlocated_postcodes, lookups, csv_file,
                   kml, data_rows, postcode_index, output_file, call, ret>>

\* final_ons_path = _trim_file(ons_file_path, ..., TEMP_ONS_CSV)
TrimOns ==
    /\ pc = "trim_ons"
    /\ LET r == _trim_file(FileRows(data_folder, ons_file_path), desired_postcode_districts,
                           ONS_FORMAT.Postcode)
       IN /\ ons_data' = r.output
          /\ pc' = IF r.raised THEN "raised" ELSE "process_paf"
    /\ UNCHANGED <<data_folder, tmp_paf, ons_file_path, desired_postcode_districts,
                   paf_rows, postcode_output_dict, unlocated_postcodes, lookups, csv_file,
                   kml, data_rows, postcode_index, output_file, call, ret>>

\* one iteration of the loop of _process_paf_file over the rows of TEMP_PAF_CSV
ReadTmpPafRow ==
    /\ Len(paf_rows) < Len(tmp_paf)
    /\ ProcessPafRow(tmp_paf[Len(paf_rows) + 1])

\* the reader of TEMP_PAF_CSV is exhausted
TmpPafEndOfFile ==
    /\ Len(paf_rows) = Len(tmp_paf)
    /\ PafEndOfFile

NextRun ==
    \/ TrimPaf
    \/ FindOnsFile
    \/ TrimOns
    \/ ReadTmpPafRow
    \/ TmpPafEndOfFile
    \/ CsvOutput
    \/ KmlOutput
    \/ CreatePostcodeInfoTxt

SpecRun == InitRun /\ [][NextRun]_vars

----------------------------------------------------------------------------
(* What the claims speak of, stated without the code's operators *)

\* s is 1-2 upper-case letters followed by 1-2 digits
IsDistrictShape(s) ==
    \E nl \in 1..2 : \E nd \in 1..2 :
        /\ Len(s) = nl + nd
        /\ \A i \in 1..nl : s[i] \in UpperCase
        /\ \A i \in (nl + 1)..Len(s) : s[i] \in Digits

\* the lengths of the prefixes of s that have the shape of a district
DistrictPrefixes(s) == {k \in 1..Len(s) : IsDistrictShape(SubSeq(s, 1, k))}

MatchesPattern(s) == DistrictPrefixes(s) # {}

\* the longest prefix of s that has the shape of a district
DistrictOf(s) ==
    LET ks == DistrictPrefixes(s)
    IN SubSeq(s, 1, CHOOSE k \in ks : \A j \in ks : j <= k)

DistrictDesired(s, districts) ==
    LET ks == DistrictPrefixes(s)
    IN ks # {} /\ SubSeq(s, 1, CHOOSE k \in ks : \A j \in ks : j <= k) \in districts

\* Organisation Name empty, Postcode Type 'S', district desired
Qualifies(row, districts) ==
    /\ Len(row) > PAF_FORMAT.PostcodeType
    /\ row[PAF_FORMAT.OrganisationName + 1] = <<>>
    /\ row[PAF_FORMAT.PostcodeType + 1] = <<"S">>
    /\ DistrictDesired(row[PAF_FORMAT.Postcode + 1], districts)

\* the number of qualifying rows among `rows` whose postcode is p
QualifyingCount(rows, p, districts) ==
    Cardinality({i \in 1..Len(rows) :
        Qualifies(rows[i], districts) /\ rows[i][PAF_FORMAT.Postcode + 1] = p})

\* the coordinate file has a row for p
HasCoordinateRow(rows, p) ==
    \E i \in 1..Len(rows) :
        Len(rows[i]) > ONS_FORMAT.Postcode /\ rows[i][ONS_FORMAT.Postcode + 1] = p

EntriesFor(d, k) == {i \in 1..Len(d) : d[i][1] = k}

PostcodesRead ==
    {paf_rows[i][PAF_FORMAT.Postcode + 1] :
        i \in {j \in 1..Len(paf_rows) : Len(paf_rows[j]) > PAF_FORMAT.Postcode}}

\* _process_paf_file has returned
PafConsumed == pc \in {"csv_output", "kml_output", "info_txt", "done"}

----------------------------------------------------------------------------
\* C1: once _process_paf_file has consumed the whole address file, every
\* postcode P with a desired district that has a row in the coordinate file and
\* occurs in N >= 1 qualifying address rows has exactly one entry in the
\* aggregate table, and that entry's address_count is N.
C1_AddressCount ==
    PafConsumed =>
        \A p \in PostcodesRead :
            LET n == QualifyingCount(paf_rows, p, desired_postcode_districts)
            IN (/\ HasCoordinateRow(ons_data, p)
                /\ DistrictDesired(p, desired_postcode_districts)
                /\ n >= 1)
               => /\ Cardinality(EntriesFor(postcode_output_dict, p)) = 1
                  /\ DictGet(postcode_output_dict, p).address_count = n

C1_Witness ==
    /\ PafConsumed
    /\ HasCoordinateRow(ons_data, PC_BT1_1AA)
    /\ QualifyingCount(paf_rows, PC_BT1_1AA, desired_postcode_districts) = 2
    /\ Len(paf_rows) = 3

\* C2: once the pass is over, a qualifying postcode P with no row in the
\* coordinate file is no key of the aggregate table, is in neither written
\* output, and its unlocated count is the number of qualifying rows for P.
C2_Unlocated ==
    PafConsumed =>
        \A p \in PostcodesRead :
            LET n == QualifyingCount(paf_rows, p, desired_postcode_districts)
            IN (n >= 1 /\ ~HasCoordinateRow(ons_data, p))
               => /\ ~DictHas(postcode_output_dict, p)
                  /\ DictHas(unlocated_postcodes, p)
                  /\ DictGet(unlocated_postcodes, p) = n
                  /\ \A i \in 1..Len(csv_file) : csv_file[i][1] # p
                  /\ \A i \in 1..Len(kml.points) : kml.points[i].name # p

C2_Witness ==
    /\ pc = "done"
    /\ ~HasCoordinateRow(ons_data, PC_BT1_1AA)
    /\ QualifyingCount(paf_rows, PC_BT1_1AA, desired_postcode_districts) = 2
    /\ DictHas(postcode_output_dict, PC_BT11AA)

\* C3: in every state, every key of the aggregate table, every data row of
\* the CSV output and every point of the KML output is a postcode that
\* matches the district pattern and whose district is in the desired set.
C3_OnlyDesired ==
    /\ \A p \in DictKeys(postcode_output_dict) :
           DistrictDesired(p, desired_postcode_districts)
    /\ \A i \in 2..Len(csv_file) :
           DistrictDesired(csv_file[i][1], desired_postcode_districts)
    /\ \A i \in 1..Len(kml.points) :
           DistrictDesired(kml.points[i].name, desired_postcode_districts)

\* rows of an undesired district and of a postcode failing the pattern were
\* read, both otherwise qualifying and the former with a coordinate row
C3_Witness ==
    /\ pc = "done"
    /\ desired_postcode_districts = {BT1}
    /\ HasCoordinateRow(ons_data, PC_BT11AA)
    /\ PafRow(PafWidth, PC_BT11AA, <<>>, TypeS) \in {paf_rows[i] : i \in 1..Len(paf_rows)}
    /\ PafRow(PafWidth, PC_lower, <<>>, TypeS) \in {paf_rows[i] : i \in 1..Len(paf_rows)}
    /\ postcode_output_dict # <<>>

\* C4: a step of _process_paf_row changes the aggregate table or the
\* unlocated table, or performs a coordinate lookup, iff the row qualifies
\* (Organisation Name empty, Postcode Type 'S', district desired); for any
\* other row both tables are unchanged and no lookup is made.
C4_OnlyQualifyingRows ==
    [][paf_rows' # paf_rows =>
        LET row == paf_rows'[Len(paf_rows')]
        IN IF Qualifies(row, desired_postcode_districts)
           THEN \/ postcode_output_dict' # postcode_output_dict
                \/ unlocated_postcodes' # unlocated_postcodes
                \/ lookups' # lookups
           ELSE /\ postcode_output_dict' = postcode_output_dict
                /\ unlocated_postcodes' = unlocated_postcodes
                /\ lookups' = lookups]_vars

\* after a located and an unlocated postcode, a large-user row and a business
\* row of a desired district were processed and left no trace
C4_Witness ==
    /\ pc = "process_paf"
    /\ Len(paf_rows) = 3
    /\ paf_rows[2] = PafRow(PafWidth, PC_BT1_1AA, <<>>, TypeL)
    /\ paf_rows[3] = PafRow(PafWidth, PC_BT1_1AA, Acme, TypeS)
    /\ Len(postcode_output_dict) = 1
    /\ lookups = <<PC_BT11AA>>

\* C10: the saved KML document has exactly one point per entry of the
\* aggregate table and no other point; the point is named by the postcode,
\* its coordinate pair is (longitude, latitude) and its AddressCount is the
\* entry's address_count.
C10_KmlPlacemarks ==
    kml.saved =>
        /\ \A p \in DictKeys(postcode_output_dict) :
              /\ Cardinality({i \in 1..Len(kml.points) : kml.points[i].name = p}) = 1
              /\ \A i \in 1..Len(kml.points) :
                    kml.points[i].name = p =>
                      /\ kml.points[i].coords =
                            << <<DictGet(postcode_output_dict, p).longitude,
                                 DictGet(postcode_output_dict, p).latitude>> >>
                      /\ kml.points[i].extendeddata =
                            << [name |-> "AddressCount",
                                value |-> DictGet(postcode_output_dict, p).address_count] >>
        /\ \A i \in 1..Len(kml.points) : DictHas(postcode_output_dict, kml.points[i].name)

C10_Witness ==
    /\ kml.saved
    /\ Len(kml.points) = 2
    /\ kml.points[1].extendeddata[1].value = 2
    /\ kml.points[1].coords[1][1] # kml.points[1].coords[1][2]

\* the row's value at the postcode column index has a district in the desired set
RowMatches(row) ==
    /\ Len(row) > postcode_index
    /\ DistrictDesired(row[postcode_index + 1], desired_postcode_districts)

\* C5: when _trim_file returns, the file it wrote is exactly the subsequence
\* of the input rows whose value at the postcode column index has a desired
\* district: none dropped, none added, in input order, each row as it was read.
C5_TrimIsFilter ==
    pc = "trimmed" => output_file = SelectSeq(data_rows, RowMatches)

\* kept and dropped rows alternate: a matching row, another row, a matching row
C5_Witness ==
    /\ pc = "trimmed"
    /\ postcode_index = ONS_FORMAT.Postcode
    /\ Len(data_rows) = 3
    /\ Len(output_file) = 2
    /\ output_file[1] # output_file[2]
    /\ data_rows[2] \notin {output_file[1], output_file[2]}

\* C6 as stated: the first row of the coordinate file is written to the
\* trimmed file unconditionally and verbatim.
C6_HeaderAlwaysKept ==
    (pc = "trimmed" /\ postcode_index = ONS_FORMAT.Postcode /\ data_rows # <<>>)
        => (output_file # <<>> /\ output_file[1] = data_rows[1])

\* C6 amended: the first row of the coordinate file is treated like every
\* other row: it is the first row of the trimmed file, verbatim, iff its
\* postcode column has a desired district; a header row, whose postcode
\* column holds a column name, is dropped.
C6_HeaderKeptIffDesired ==
    (pc = "trimmed" /\ postcode_index = ONS_FORMAT.Postcode /\ data_rows # <<>>)
        => /\ (output_file # <<>> /\ output_file[1] = data_rows[1]) <=> RowMatches(data_rows[1])
           /\ data_rows[1] = OnsHeader =>
                 \A i \in 1..Len(output_file) : output_file[i] # OnsHeader

\* a header row followed by two rows of a desired district was trimmed
C6_Witness ==
    /\ pc = "trimmed"
    /\ postcode_index = ONS_FORMAT.Postcode
    /\ Len(data_rows) = 3
    /\ data_rows[1] = OnsHeader
    /\ Len(output_file) = 2

\* C7: _is_desired_postcode_district(s, D) is true iff s begins with 1-2
\* upper-case letters followed by 1-2 digits and the longest such prefix is
\* in D; for a string that does not match at its start it is false; it
\* never raises.
C7_IsDesired ==
    (pc = "returned" /\ "data" \in DOMAIN call) =>
        /\ ~ret.raised
        /\ ret.value = (MatchesPattern(call.data) /\ DistrictOf(call.data) \in call.districts)
        /\ ~MatchesPattern(call.data) => ret.value = FALSE

\* 'BT11' followed by a letter, with BT11 desired and BT1 not: the longer
\* district is the one captured
C7_Witness ==
    /\ pc = "returned"
    /\ "data" \in DOMAIN call
    /\ call.data = <<"B","T","1","1","B">>
    /\ call.districts = {B1, BT11}
    /\ ret.value = TRUE

\* the rows of the file whose postcode column equals p
RowsWithPostcode(rows, p) ==
    {i \in 1..Len(rows) : Len(rows[i]) > ONS_FORMAT.Postcode
                           /\ rows[i][ONS_FORMAT.Postcode + 1] = p}

\* C8: when _retrieve_coords_ons(file, p) returns, it returns the latitude
\* and longitude fields of the first row, in file order, whose postcode
\* column equals p exactly, also when later rows carry p too, and it
\* returns (None, None) iff no row's postcode column equals p.
C8_FirstMatch ==
    (pc = "returned" /\ "postcode" \in DOMAIN call /\ ~ret.raised) =>
        LET hits == RowsWithPostcode(call.rows, call.postcode)
        IN /\ (ret.value = <<None, None>>) <=> (hits = {})
           /\ hits # {} =>
                 LET first == CHOOSE i \in hits : \A j \in hits : i <= j
                 IN ret.value = <<call.rows[first][ONS_FORMAT.Latitude + 1],
                                  call.rows[first][ONS_FORMAT.Longitude + 1]>>

\* two rows carry the postcode with different coordinates: the first one's
\* are returned
C8_Witness ==
    /\ pc = "returned"
    /\ "postcode" \in DOMAIN call
    /\ call.postcode = PC_BT1_1AA
    /\ call.rows = <<OnsRow(OnsWidth, PC_BT1_1AA, Lat2, Lon2),
                     OnsRow(OnsWidth, PC_BT1_1AA, Lat1, Lon1)>>
    /\ ret.value = <<Lat2, Lon2>>

\* the letters of a district: what is left of it without its digits
LettersOf(district) ==
    SubSeq(district, 1, Cardinality({i \in 1..Len(district) : district[i] \in UpperCase}))

\* the name '<dataset-prefix>_UK_<letters>.csv'
OnsFileName(letters) == ONS_FOLDER_NAME \o <<"_","U","K","_">> \o letters \o <<".","c","s","v">>

\* the text between the last '_' of a name and its extension
LastSegment(name) ==
    LET stem == SubSeq(name, 1, Len(name) - 4)
        cuts == {i \in 1..Len(stem) : stem[i] = "_"}
    IN SubSeq(stem, (CHOOSE i \in cuts : \A j \in cuts : j <= i) + 1, Len(stem))

RECURSIVE DecimalValue(_)
DecimalValue(s) ==
    IF s = <<>> THEN 0
    ELSE 10 * DecimalValue(SubSeq(s, 1, Len(s) - 1))
         + (CHOOSE n \in 0..9 : <<"0","1","2","3","4","5","6","7","8","9">>[n + 1] = s[Len(s)])

\* the position in the address file of the first qualifying row of postcode p
FirstQualifyingRow(p) ==
    LET at == {i \in 1..Len(paf_rows) :
                  /\ Qualifies(paf_rows[i], desired_postcode_districts)
                  /\ paf_rows[i][PAF_FORMAT.Postcode + 1] = p}
    IN IF at = {} THEN 0 ELSE CHOOSE i \in at : \A j \in at : i <= j

\* C11: the CSV file holds the header row (postcode, address count, latitude,
\* longitude), then exactly one data row per entry of the aggregate table
\* with that entry's count and coordinates, and the data rows are in the
\* order in which their postcodes first occurred as qualifying address rows.
C11_CsvRows ==
    csv_file # <<>> =>
        /\ csv_file[1] = << <<"p","o","s","t","c","o","d","e">>,
                            <<"a","d","d","r","e","s","s"," ","c","o","u","n","t">>,
                            <<"l","a","t","i","t","u","d","e">>,
                            <<"l","o","n","g","i","t","u","d","e">> >>
        /\ Len(csv_file) = 1 + Cardinality(DictKeys(postcode_output_dict))
        /\ \A p \in DictKeys(postcode_output_dict) :
              \E i \in 2..Len(csv_file) :
                  /\ csv_file[i][1] = p
                  /\ DecimalValue(csv_file[i][2]) = DictGet(postcode_output_dict, p).address_count
                  /\ csv_file[i][3] = DictGet(postcode_output_dict, p).latitude
                  /\ csv_file[i][4] = DictGet(postcode_output_dict, p).longitude
        /\ \A i \in 2..Len(csv_file) : \A j \in 2..Len(csv_file) :
              i < j => /\ FirstQualifyingRow(csv_file[i][1]) > 0
                       /\ FirstQualifyingRow(csv_file[i][1]) < FirstQualifyingRow(csv_file[j][1])

\* BT11AA occurred first and once, BT1 1AA after it and twice
C11_Witness ==
    /\ Len(csv_file) = 3
    /\ csv_file[2][1] = PC_BT11AA
    /\ csv_file[3][1] = PC_BT1_1AA
    /\ csv_file[3][2] = <<"2">>
    /\ Len(paf_rows) = 3

\* the number of lookups made for postcode p
LookupsOf(log, p) == Cardinality({i \in 1..Len(log) : log[i] = p})

\* C13 as stated: a lookup is made only at the first qualifying occurrence of
\* a postcode, so no postcode is looked up twice in a run.
C13_LookupOncePerPostcode ==
    \A i \in 1..Len(lookups) : \A j \in 1..Len(lookups) :
        i # j => lookups[i] # lookups[j]

\* C13 amended: a step makes a lookup exactly when the row qualifies and its
\* postcode is not in the aggregate table (its first qualifying occurrence,
\* and every later occurrence of a postcode whose lookup found nothing); a
\* qualifying row whose postcode is in the table only increments the count;
\* a postcode in the table has been looked up exactly once.
C13_LookupIffNotInTable ==
    [][paf_rows' # paf_rows =>
        LET row == paf_rows'[Len(paf_rows')]
            q == Qualifies(row, desired_postcode_districts)
        IN /\ lookups' =
                IF q /\ ~DictHas(postcode_output_dict, row[PAF_FORMAT.Postcode + 1])
                THEN Append(lookups, row[PAF_FORMAT.Postcode + 1])
                ELSE lookups
           /\ (q /\ DictHas(postcode_output_dict, row[PAF_FORMAT.Postcode + 1])) =>
                 /\ DictKeys(postcode_output_dict') = DictKeys(postcode_output_dict)
                 /\ DictGet(postcode_output_dict', row[PAF_FORMAT.Postcode + 1]).address_count
                      = DictGet(postcode_output_dict, row[PAF_FORMAT.Postcode + 1]).address_count + 1
           /\ \A p \in DictKeys(postcode_output_dict') : LookupsOf(lookups', p) = 1]_vars

\* an unlocated postcode was looked up at both of its rows, a located one once
C13_Witness ==
    /\ lookups = <<PC_BT1_1AA, PC_BT11AA, PC_BT1_1AA>>
    /\ DictKeys(postcode_output_dict) = {PC_BT11AA}
    /\ DictHas(unlocated_postcodes, PC_BT1_1AA)

\* a dict as a mapping: the set of its <<key, value>> items
Items(d) == {d[i] : i \in 1..Len(d)}

\* C14: the aggregate table and the unlocated table _process_paf_file
\* returns, as mappings, are those it returns for every permutation of the
\* address rows (coordinate file and desired set fixed).
C14_OrderIndependent ==
    pc = "csv_output" =>
        \A f \in Permutations(1..Len(paf_rows)) :
            LET r == _process_paf_file([i \in 1..Len(paf_rows) |-> paf_rows[f[i]]],
                                       desired_postcode_districts, ons_data)
            IN /\ ~r.raised
               /\ Items(r.dict) = Items(postcode_output_dict)
               /\ Items(r.unlocated) = Items(unlocated_postcodes)

\* rows of two located postcodes, interleaved
C14_Witness ==
    /\ pc = "csv_output"
    /\ Len(paf_rows) = 3
    /\ paf_rows[1] = paf_rows[3]
    /\ paf_rows[1] # paf_rows[2]
    /\ Len(postcode_output_dict) = 2
    /\ DictGet(postcode_output_dict, PC_BT1_1AA).address_count = 2

\* the row has no field at one of the indexes the code reads
LacksColumn(row) ==
    \/ Len(row) <= PAF_FORMAT.Postcode
    \/ Len(row) <= PAF_FORMAT.OrganisationName
    \/ Len(row) <= PAF_FORMAT.PostcodeType

\* C15: an address row that lacks an expected column is skipped: the step
\* that reads it leaves both tables unchanged and the pass goes on to the
\* next row.
C15_MalformedRowSkipped ==
    [][(paf_rows' # paf_rows /\ LacksColumn(paf_rows'[Len(paf_rows')])) =>
          /\ pc' = "process_paf"
          /\ postcode_output_dict' = postcode_output_dict
          /\ unlocated_postcodes' = unlocated_postcodes]_vars

\* C16: while the aggregation pass runs, and in a run that stopped in it,
\* Postcodes.csv has not been created and the KML document has neither
\* points nor been saved; the writers act only once the reader is exhausted.
C16_NoPartialOutput ==
    pc \in {"process_paf", "raised"} =>
        /\ csv_file = <<>>
        /\ kml = [saved |-> FALSE, points |-> <<>>]

\* the pass aborted after it had already aggregated a postcode
C16_Witness ==
    /\ pc = "raised"
    /\ postcode_output_dict # <<>>
    /\ Len(paf_rows) >= 2
    /\ csv_file = <<>>
    /\ ~kml.saved

RECURSIVE SumAddressCount(_)
SumAddressCount(d) ==
    IF d = <<>> THEN 0 ELSE d[1][2].address_count + SumAddressCount(Tail(d))

RECURSIVE SumCount(_)
SumCount(d) == IF d = <<>> THEN 0 ELSE d[1][2] + SumCount(Tail(d))

Conservation(output_dict, unlocated, rows, districts) ==
    /\ DictKeys(output_dict) \cap DictKeys(unlocated) = {}
    /\ \A i \in 1..Len(output_dict) : output_dict[i][2].address_count >= 1
    /\ \A i \in 1..Len(unlocated) : unlocated[i][2] >= 1
    /\ SumAddressCount(output_dict) + SumCount(unlocated)
          = Cardinality({i \in 1..Len(rows) : Qualifies(rows[i], districts)})

\* the rows whose processing completed: a row at which the pass raised was
\* read but not processed
RowsProcessed(at, rows) ==
    IF at = "raised" THEN SubSeq(rows, 1, Len(rows) - 1) ELSE rows

\* C17: after every step of the run the key sets of the aggregate table and
\* the unlocated table are disjoint, every stored count is at least 1, the
\* counts of both tables sum to the number of qualifying rows processed so
\* far (a row at which the pass raised is not processed),
\* and the step removed no key and lowered no count.
C17_Conservation ==
    [][/\ Conservation(postcode_output_dict', unlocated_postcodes',
                       RowsProcessed(pc', paf_rows'), desired_postcode_districts')
       /\ \A p \in DictKeys(postcode_output_dict) :
             /\ DictHas(postcode_output_dict', p)
             /\ DictGet(postcode_output_dict', p).address_count
                   >= DictGet(postcode_output_dict, p).address_count
       /\ \A p \in DictKeys(unlocated_postcodes) :
             /\ DictHas(unlocated_postcodes', p)
             /\ DictGet(unlocated_postcodes', p) >= DictGet(unlocated_postcodes, p)]_vars

\* a located postcode and a postcode that was unlocated twice
C17_Witness ==
    /\ Len(paf_rows) = 3
    /\ DictHas(postcode_output_dict, PC_BT11AA)
    /\ DictHas(unlocated_postcodes, PC_BT1_1AA)
    /\ DictGet(unlocated_postcodes, PC_BT1_1AA) = 2

\* what one run of data_transformation and postcode_parse leaves behind when
\* list(desired_postcode_districts)[0] is outward_code
RunOutcome(folder, districts, outward_code) ==
    LET paf == _trim_file(folder.paf, districts, PAF_FORMAT.Postcode)
        found == _find_ons_file(ONS_FOLDER_PATH, listdir(folder), outward_code)
    IN IF paf.raised \/ found.raised
       THEN [completed |-> FALSE, csv |-> <<>>, placemarks |-> {}]
       ELSE LET ons == _trim_file(FileRows(folder, found.value), districts,
                                  ONS_FORMAT.Postcode)
                r == _process_paf_file(paf.output, districts, ons.output)
            IN IF ons.raised \/ r.raised
               THEN [completed |-> FALSE, csv |-> <<>>, placemarks |-> {}]
               ELSE [completed |-> TRUE,
                     csv |-> csv_output(r.dict),
                     placemarks |-> Items(kml_output(r.dict))]

\* C12: a run that completed wrote the CSV rows and the KML placemarks that
\* every run on the same data folder and the same desired set writes,
\* whichever element of the set that run's list(...)[0] is.
C12_Deterministic ==
    pc = "done" =>
        \A outward_code \in desired_postcode_districts :
            RunOutcome(data_folder, desired_postcode_districts, outward_code)
                = [completed |-> TRUE, csv |-> csv_file, placemarks |-> Items(kml.points)]

\* the rows of the regional file the run chose whose postcode is in a desired district
TrimmedChosenFile ==
    LET Desired(row) == DistrictDesired(row[ONS_FORMAT.Postcode + 1],
                                        desired_postcode_districts)
    IN SelectSeq(FileRows(data_folder, ons_file_path), Desired)

\* C18: the file found is the regional file of the letters of one element of
\* the desired set; once it is trimmed the coordinate file holds the desired
\* rows of that one file and only postcodes of its letters, and every
\* qualifying row read whose postcode has other letters has its postcode in
\* the unlocated table and not in the aggregate table.
C18_OneRegionalFile ==
    /\ ons_file_path # <<>> =>
          \E d \in desired_postcode_districts :
              ons_file_path = <<ONS_FOLDER_PATH, OnsFileName(LettersOf(d))>>
    /\ pc \in {"process_paf", "csv_output", "kml_output", "info_txt", "done"}
          /\ ons_file_path # <<>> =>
          /\ ons_data = TrimmedChosenFile
          /\ \A i \in 1..Len(ons_data) :
                LettersOf(DistrictOf(ons_data[i][ONS_FORMAT.Postcode + 1]))
                  = LastSegment(ons_file_path[2])
          /\ \A i \in 1..Len(paf_rows) :
                LET p == paf_rows[i][PAF_FORMAT.Postcode + 1]
                IN (/\ Qualifies(paf_rows[i], desired_postcode_districts)
                    /\ LettersOf(DistrictOf(p)) # LastSegment(ons_file_path[2])) =>
                       /\ DictHas(unlocated_postcodes, p)
                       /\ ~DictHas(postcode_output_dict, p)

\* BT1 and CV1 desired, the BT file chosen, the CV file has CV1 2AB: BT1 1AA
\* is located and CV1 2AB is unlocated
C18_Witness ==
    /\ pc = "done"
    /\ desired_postcode_districts = {BT1, CV1}
    /\ ons_file_path = <<ONS_FOLDER_PATH, OnsFileName(<<"B","T">>)>>
    /\ Len(data_folder.ons) = 2
    /\ \E i \in 1..Len(data_folder.ons[2].rows) :
          data_folder.ons[2].rows[i][ONS_FORMAT.Postcode + 1] = PC_CV1_2AB
    /\ DictHas(postcode_output_dict, PC_BT1_1AA)
    /\ DictHas(unlocated_postcodes, PC_CV1_2AB)

====
